---- MODULE Spec2Model ----
(***************************************************************************)
(* Model of the authoritative game server, src/server.js (the second,      *)
(* CORS-enabled copy of the server, lines 207-399).                        *)
(*                                                                         *)
(* Node runs every handler and timer callback to completion on one thread, *)
(* so each handler is one atomic action.  Wall-clock time is abstracted:   *)
(* a live interval or a pending timeout may fire at any moment.            *)
(*                                                                         *)
(* The source does not pin the socket.io version: io.sockets.sockets is a  *)
(* plain object keyed by socket id in socket.io 2 and a Map in socket.io 3 *)
(* and later; Object.keys of it differs, so the model carries both.        *)
(*                                                                         *)
(* Coordinates are integers counting half arena units, so the collision    *)
(* threshold 1.5 is the integer 3 and "distance exactly 1.5" is a case.    *)
(***************************************************************************)
EXTENDS Integers, Sequences, FiniteSets, TLC

VARIABLES
    socketsIsMap,           \* whether io.sockets.sockets is a Map (socket.io 3 and later,
                            \* the versions that read the cors option) or a plain object
                            \* keyed by socket id (socket.io 2); fixed by the installed library
    connected,              \* the ids of the sockets io.sockets.sockets holds
    players,                \* the players object, as records in key insertion order
    treasures,              \* the treasures array
    gameInProgress,
    gameTimer,
    countdownInterval,      \* the three handle variables (0: undefined)
    gameLoopInterval,
    treasureSpawnInterval,
    intervals,              \* the intervals setInterval created and clearInterval did not clear
    timeouts,               \* number of pending setTimeout callbacks of endGame
    emitted                 \* what the last handler emitted

vars == <<socketsIsMap, connected, players, treasures, gameInProgress, gameTimer,
          countdownInterval, gameLoopInterval, treasureSpawnInterval,
          intervals, timeouts, emitted>>

----------------------------------------------------------------------------
(* Program constants *)

RoundDuration == 60      \* gameTimer = 60
TreasureCap == 20        \* treasures.length >= 20
LeaderboardSize == 5     \* .slice(0, 5)
CollisionRadius == 3     \* distance < 1.5, in half units
TreasureY == 1           \* y: 0.5, in half units
SpawnY == 1              \* y: 0.5, in half units

(* Bounds of the model *)

MaxLive == 2            \* sets of intervals (one per startGame) live at once
MaxScore == 1           \* a tick that would push a score past it is not explored
MaxTreasures == 1       \* Spec explores the spawn interval up to this many treasures
MaxUnderrun == 1        \* gameTimer is explored down to -MaxUnderrun
MaxTimeouts == 1        \* pending timeouts of endGame

(* Inputs *)

Sockets == {"s1", "s2"}
TypedName(s) == IF s = "s1" THEN "Ann" ELSE ""     \* the name each client sends
FallbackNames == {"Player 7"}                       \* 'Player ' + a random number below 1000
JoinPositions == {[x |-> 5, z |-> 0]}
MovePositions == {[x |-> 0, y |-> 2, z |-> 0]}
SpawnPositions == {[x |-> 2, z |-> 0]}
SpawnIds == {1}         \* the server never reads a treasure's id; SpecTick gives each its own

----------------------------------------------------------------------------
(* The players object: own string keys are enumerated in insertion order,  *)
(* assigning to an existing key keeps its place.                           *)

Keys(ps) == {ps[i].id : i \in 1..Len(ps)}

IndexOf(ps, id) == CHOOSE i \in 1..Len(ps) : ps[i].id = id

Put(ps, rec) ==
    IF rec.id \in Keys(ps)
    THEN [ps EXCEPT ![IndexOf(ps, rec.id)] = rec]
    ELSE Append(ps, rec)

Delete(ps, id) == SelectSeq(ps, LAMBDA p : p.id # id)

(* playerName || fallback: the empty string stands for every falsy name *)
NewPlayer(id, playerName, fallback, pos) ==
    [id |-> id,
     name |-> IF playerName # "" THEN playerName ELSE fallback,
     x |-> pos.x, y |-> SpawnY, z |-> pos.z,
     score |-> 0]

(* startGame without its score-reset loop *)
ResetScoresSkipped(ps) == ps

ResetScores(ps) == [i \in 1..Len(ps) |-> [ps[i] EXCEPT !.score = 0]]

----------------------------------------------------------------------------
(* spawnTreasure *)

NewTreasure(id, pos) == [id |-> id, x |-> pos.x, y |-> TreasureY, z |-> pos.z]

(* the cap test with > for >= *)
spawnTreasureOffByOne(ts, id, pos) ==
    IF Len(ts) > TreasureCap THEN ts ELSE Append(ts, NewTreasure(id, pos))

spawnTreasure(ts, id, pos) ==
    IF Len(ts) >= TreasureCap THEN ts ELSE Append(ts, NewTreasure(id, pos))

----------------------------------------------------------------------------
(* getLeaderboard: a stable sort by score, descending, then the first five *)

(* an insertion that puts a player before those of equal score *)
RECURSIVE InsertBeforeTies(_, _)
InsertBeforeTies(sorted, p) ==
    IF sorted = <<>> THEN <<p>>
    ELSE IF Head(sorted).score > p.score
         THEN <<Head(sorted)>> \o InsertBeforeTies(Tail(sorted), p)
         ELSE <<p>> \o sorted

RECURSIVE InsertByScore(_, _)
InsertByScore(sorted, p) ==
    IF sorted = <<>> THEN <<p>>
    ELSE IF Head(sorted).score >= p.score
         THEN <<Head(sorted)>> \o InsertByScore(Tail(sorted), p)
         ELSE <<p>> \o sorted

RECURSIVE SortByScore(_)
SortByScore(ps) ==
    IF ps = <<>> THEN <<>>
    ELSE InsertByScore(SortByScore(SubSeq(ps, 1, Len(ps) - 1)), ps[Len(ps)])

Slice(s, n) == SubSeq(s, 1, IF Len(s) < n THEN Len(s) ELSE n)

getLeaderboard(ps) ==
    LET top == Slice(SortByScore(ps), LeaderboardSize)
    IN  [i \in 1..Len(top) |-> [name |-> top[i].name, score |-> top[i].score]]

Snapshot(ps, ts, timer) ==
    [players |-> ps, treasures |-> ts, gameTimer |-> timer,
     leaderboard |-> getLeaderboard(ps)]

----------------------------------------------------------------------------
(* gameLoop's collision pass *)

Dist2(p, t) == (p.x - t.x) * (p.x - t.x) + (p.z - t.z) * (p.z - t.z)

Collides(p, t) == Dist2(p, t) < CollisionRadius * CollisionRadius

RemoveAt(s, k) == SubSeq(s, 1, k - 1) \o SubSeq(s, k + 1, Len(s))

(* treasures.forEach: the length is read once, index k is visited only if  *)
(* the array still has it, and a splice inside the callback shifts the     *)
(* later elements down while k moves on.                                   *)
RECURSIVE ForEachTreasure(_, _, _, _)
ForEachTreasure(p, ts, k, len) ==
    IF k > len THEN [player |-> p, treasures |-> ts]
    ELSE IF k > Len(ts) THEN ForEachTreasure(p, ts, k + 1, len)
    ELSE IF Collides(p, ts[k])
         THEN ForEachTreasure([p EXCEPT !.score = @ + 1], RemoveAt(ts, k), k + 1, len)
         ELSE ForEachTreasure(p, ts, k + 1, len)

RECURSIVE CollisionPass(_, _, _)
CollisionPass(ps, ts, i) ==
    IF i > Len(ps) THEN [players |-> ps, treasures |-> ts]
    ELSE LET r == ForEachTreasure(ps[i], ts, 1, Len(ts))
         IN  CollisionPass([ps EXCEPT ![i] = r.player], r.treasures, i + 1)

----------------------------------------------------------------------------
(* endGame's winner: the first player, in key order, with the top score *)

(* the winner loop with >= for >: the last player with the top score *)
RECURSIVE WinnerFromLastMax(_, _, _, _)
WinnerFromLastMax(ps, i, highScore, winner) ==
    IF i > Len(ps) THEN winner
    ELSE IF ps[i].score >= highScore
         THEN WinnerFromLastMax(ps, i + 1, ps[i].score, <<ps[i]>>)
         ELSE WinnerFromLastMax(ps, i + 1, highScore, winner)

RECURSIVE WinnerFrom(_, _, _, _)
WinnerFrom(ps, i, highScore, winner) ==
    IF i > Len(ps) THEN winner
    ELSE IF ps[i].score > highScore
         THEN WinnerFrom(ps, i + 1, ps[i].score, <<ps[i]>>)
         ELSE WinnerFrom(ps, i + 1, highScore, winner)

GameOverPayload(ps) ==
    LET winner == WinnerFrom(ps, 1, -1, <<>>)
    IN  IF winner # <<>>
        THEN [name |-> winner[1].name, score |-> winner[1].score]
        ELSE [name |-> "No one", score |-> 0]

----------------------------------------------------------------------------
(* Timers *)

Interval(kind, n) == [kind |-> kind, n |-> n]

RoundIntervals(n) ==
    {Interval("tick", n), Interval("spawn", n), Interval("countdown", n)}

(* A timer handle is an opaque value; setInterval's result is modelled as  *)
(* the least number that names no live interval.                          *)
LiveTimers == {i.n : i \in intervals}

FreshTimer == CHOOSE n \in 1..(Cardinality(LiveTimers) + 1) :
                  /\ n \notin LiveTimers
                  /\ \A m \in 1..(n - 1) : m \in LiveTimers

(* the three clearInterval calls of endGame and of the disconnect handler *)
ClearIntervals ==
    intervals \ {Interval("tick", gameLoopInterval),
                 Interval("spawn", treasureSpawnInterval),
                 Interval("countdown", countdownInterval)}

NoEvent == [type |-> "none"]

(* Object.keys(io.sockets.sockets): the socket ids of a plain object; a    *)
(* Map has no own enumerable properties, so its Object.keys is empty.      *)
connectedSocketIds == IF socketsIsMap THEN {} ELSE connected


----------------------------------------------------------------------------
Init ==
    /\ socketsIsMap \in BOOLEAN
    /\ connected = {}
    /\ players = <<>>
    /\ treasures = <<>>
    /\ gameInProgress = FALSE
    /\ gameTimer = RoundDuration
    /\ countdownInterval = 0
    /\ gameLoopInterval = 0
    /\ treasureSpawnInterval = 0
    /\ intervals = {}
    /\ timeouts = 0
    /\ emitted = NoEvent

(* startGame, run on the players object ps the caller has built so far *)
startGame(ps) ==
    /\ Cardinality(LiveTimers) < MaxLive
    /\ gameInProgress' = TRUE
    /\ gameTimer' = RoundDuration
    /\ players' = ResetScores(ps)
    /\ gameLoopInterval' = FreshTimer
    /\ treasureSpawnInterval' = FreshTimer
    /\ countdownInterval' = FreshTimer
    /\ intervals' = intervals \cup RoundIntervals(FreshTimer)
    /\ \E id \in SpawnIds, pos \in SpawnPositions :
          treasures' = spawnTreasure(<<>>, id, pos)

(* endGame; the caller sets gameTimer *)
endGame ==
    /\ timeouts < MaxTimeouts
    /\ gameInProgress' = FALSE
    /\ intervals' = ClearIntervals
    /\ emitted' = [type |-> "gameOver", payload |-> GameOverPayload(players)]
    /\ timeouts' = timeouts + 1
    /\ UNCHANGED <<players, treasures,
                   countdownInterval, gameLoopInterval, treasureSpawnInterval>>

connection(s) ==
    /\ s \notin connected
    /\ connected' = connected \cup {s}
    /\ emitted' = NoEvent
    /\ UNCHANGED <<socketsIsMap, players, treasures, gameInProgress, gameTimer,
                   countdownInterval, gameLoopInterval, treasureSpawnInterval,
                   intervals, timeouts>>

(* a joinGame handler that calls startGame without testing gameInProgress *)
joinGameRestarts(s, playerName, fallback, pos) ==
    /\ s \in connected
    /\ startGame(Put(players, NewPlayer(s, playerName, fallback, pos)))
    /\ emitted' = [type |-> "gameJoined", id |-> s,
                   gameState |-> Snapshot(players', treasures', gameTimer')]
    /\ UNCHANGED <<socketsIsMap, connected, timeouts>>

joinGame(s, playerName, fallback, pos) ==
    /\ s \in connected
    /\ LET ps == Put(players, NewPlayer(s, playerName, fallback, pos))
       IN  IF ~gameInProgress /\ Len(ps) > 0
           THEN /\ startGame(ps)
                /\ UNCHANGED timeouts
           ELSE /\ players' = ps
                /\ UNCHANGED <<treasures, gameInProgress, gameTimer,
                               countdownInterval, gameLoopInterval,
                               treasureSpawnInterval, intervals, timeouts>>
    /\ emitted' = [type |-> "gameJoined", id |-> s,
                   gameState |-> Snapshot(players', treasures', gameTimer')]
    /\ UNCHANGED <<socketsIsMap, connected>>

(* a move handler without its "if (player)" test, registering the mover *)
moveUpserts(s, position) ==
    /\ s \in connected
    /\ players' = Put(players, [id |-> s, x |-> position.x, y |-> position.y,
                                z |-> position.z,
                                name |-> IF s \in Keys(players)
                                         THEN players[IndexOf(players, s)].name ELSE "",
                                score |-> IF s \in Keys(players)
                                          THEN players[IndexOf(players, s)].score ELSE 0])
    /\ emitted' = NoEvent
    /\ UNCHANGED <<socketsIsMap, connected, treasures, gameInProgress, gameTimer,
                   countdownInterval, gameLoopInterval, treasureSpawnInterval,
                   intervals, timeouts>>

move(s, position) ==
    /\ s \in connected
    /\ players' = IF s \in Keys(players)
                  THEN [players EXCEPT ![IndexOf(players, s)] =
                            [@ EXCEPT !.x = position.x, !.y = position.y,
                                      !.z = position.z]]
                  ELSE players
    /\ emitted' = NoEvent
    /\ UNCHANGED <<socketsIsMap, connected, treasures, gameInProgress, gameTimer,
                   countdownInterval, gameLoopInterval, treasureSpawnInterval,
                   intervals, timeouts>>

disconnect(s) ==
    /\ s \in connected
    /\ connected' = connected \ {s}
    /\ players' = Delete(players, s)
    /\ IF Len(players') = 0
       THEN /\ gameInProgress' = FALSE
            /\ intervals' = ClearIntervals
            /\ treasures' = <<>>
       ELSE UNCHANGED <<gameInProgress, intervals, treasures>>
    /\ emitted' = NoEvent
    /\ UNCHANGED <<socketsIsMap, gameTimer, countdownInterval, gameLoopInterval,
                   treasureSpawnInterval, timeouts>>

(* gameLoop broadcasting the state it found, before its collision pass *)
gameLoopBroadcastsFirst(n) ==
    /\ Interval("tick", n) \in intervals
    /\ LET r == CollisionPass(players, treasures, 1)
       IN  /\ players' = r.players
           /\ treasures' = r.treasures
           /\ emitted' = [type |-> "gameState",
                          gameState |-> Snapshot(players, treasures, gameTimer)]
    /\ UNCHANGED <<socketsIsMap, connected, gameInProgress, gameTimer,
                   countdownInterval, gameLoopInterval, treasureSpawnInterval,
                   intervals, timeouts>>

(* the tick interval with handle n fires *)
gameLoop(n) ==
    /\ Interval("tick", n) \in intervals
    /\ LET r == CollisionPass(players, treasures, 1)
       IN  /\ players' = r.players
           /\ treasures' = r.treasures
           /\ emitted' = [type |-> "gameState",
                          gameState |-> Snapshot(r.players, r.treasures, gameTimer)]
    /\ UNCHANGED <<socketsIsMap, connected, gameInProgress, gameTimer,
                   countdownInterval, gameLoopInterval, treasureSpawnInterval,
                   intervals, timeouts>>

(* the spawn interval with handle n fires *)
spawnTick(n, id, pos) ==
    /\ Interval("spawn", n) \in intervals
    /\ treasures' = spawnTreasure(treasures, id, pos)
    /\ emitted' = NoEvent
    /\ UNCHANGED <<socketsIsMap, connected, players, gameInProgress, gameTimer,
                   countdownInterval, gameLoopInterval, treasureSpawnInterval,
                   intervals, timeouts>>

(* the countdown interval with handle n fires *)
countdown(n) ==
    /\ Interval("countdown", n) \in intervals
    /\ gameTimer > -MaxUnderrun
    /\ gameTimer' = gameTimer - 1
    /\ IF gameTimer' <= 0
       THEN /\ endGame
       ELSE /\ emitted' = NoEvent
            /\ UNCHANGED <<players, treasures, gameInProgress,
                           countdownInterval, gameLoopInterval,
                           treasureSpawnInterval, intervals, timeouts>>
    /\ UNCHANGED <<socketsIsMap, connected>>

(* a pending timeout of endGame fires *)
graceTimeout ==
    /\ timeouts > 0
    /\ timeouts' = timeouts - 1
    /\ LET ps == SelectSeq(players, LAMBDA p : p.id \in connectedSocketIds)
       IN  IF Len(ps) > 0
           THEN /\ startGame(ps)
           ELSE /\ players' = ps
                /\ UNCHANGED <<treasures, gameInProgress, gameTimer,
                               countdownInterval, gameLoopInterval,
                               treasureSpawnInterval, intervals>>
    /\ emitted' = NoEvent
    /\ UNCHANGED <<socketsIsMap, connected>>

ScoresUpTo(ps, max) == \A i \in 1..Len(ps) : ps[i].score <= max

(* One step of the server with the sockets S; the spawn interval is       *)
(* explored while fewer than maxTreasures treasures are live, a tick      *)
(* while it leaves every score at most maxScore.                          *)
Step(S, maxTreasures, maxScore) ==
    \/ \E s \in S : connection(s)
    \/ \E s \in S, fallback \in FallbackNames, pos \in JoinPositions :
          joinGame(s, TypedName(s), fallback, pos)
    \/ \E s \in S, position \in MovePositions : move(s, position)
    \/ \E s \in S : disconnect(s)
    \/ \E n \in 1..MaxLive : gameLoop(n) /\ ScoresUpTo(players', maxScore)
    \/ \E n \in 1..MaxLive, id \in SpawnIds, pos \in SpawnPositions :
          Len(treasures) < maxTreasures /\ spawnTick(n, id, pos)
    \/ \E n \in 1..MaxLive : countdown(n)
    \/ graceTimeout

Next == Step(Sockets, MaxTreasures, MaxScore)

Spec == Init /\ [][Next]_vars

----------------------------------------------------------------------------
(* SpecCap: the same server with one socket, the spawn interval explored   *)
(* up to and at the cap.                                                   *)

NextCap == Step({"s1"}, TreasureCap + 1, MaxScore)

SpecCap == Init /\ [][NextCap]_vars

----------------------------------------------------------------------------
(* SpecTick: gameLoop on every registry and treasure list drawn from the   *)
(* spots below, in a round that one startGame has started.  The players    *)
(* stand where joinGame or move can put them, the treasures lie where      *)
(* spawnTreasure can put them, each with its own id.                       *)

MaxTickTreasures == 3

TickPlayerSpots == {[x |-> 0, z |-> 0], [x |-> 4, z |-> 0]}
TickTreasureSpots == {[x |-> 2, z |-> 2], [x |-> 3, z |-> 0], [x |-> -3, z |-> 0]}

TickRegistries ==
    {ps \in UNION {[1..k -> {NewPlayer(s, TypedName(s), "Player 7", pos) :
                                 s \in Sockets, pos \in TickPlayerSpots}] :
                   k \in 1..Cardinality(Sockets)} :
        \A i, j \in 1..Len(ps) : i # j => ps[i].id # ps[j].id}

TickTreasureLists ==
    UNION {{[i \in 1..k |-> NewTreasure(i, f[i])] : f \in [1..k -> TickTreasureSpots]} :
           k \in 0..MaxTickTreasures}

InitTick ==
    /\ socketsIsMap \in BOOLEAN
    /\ connected = Sockets
    /\ players \in TickRegistries
    /\ treasures \in TickTreasureLists
    /\ gameInProgress = TRUE
    /\ gameTimer = RoundDuration
    /\ countdownInterval = 1
    /\ gameLoopInterval = 1
    /\ treasureSpawnInterval = 1
    /\ intervals = RoundIntervals(1)
    /\ timeouts = 0
    /\ emitted = NoEvent

NextTick == \E n \in 1..MaxLive : gameLoop(n)

SpecTick == InitTick /\ [][NextTick]_vars

----------------------------------------------------------------------------
(* Steps, named for the properties below *)

TickStep == \E n \in 1..MaxLive : gameLoop(n)

SpawnStep == \E n \in 1..MaxLive, id \in SpawnIds, pos \in SpawnPositions :
                spawnTick(n, id, pos)

CountdownStep == \E n \in 1..MaxLive : countdown(n)

JoinStep == \E s \in Sockets, fallback \in FallbackNames, pos \in JoinPositions :
               joinGame(s, TypedName(s), fallback, pos)

DisconnectStep == \E s \in Sockets : disconnect(s)

(* the steps in which startGame runs, and the one in which endGame runs *)
JoinStartsRound == ~gameInProgress /\ JoinStep

GraceStartsRound == graceTimeout /\ \E i \in 1..Len(players) : players[i].id \in connectedSocketIds

StartGameStep == JoinStartsRound \/ GraceStartsRound

EndGameStep == gameTimer - 1 <= 0 /\ CountdownStep

(* a timer of an earlier round fires: an interval the handle variables no  *)
(* longer name, or a timeout of endGame while a newer round is in progress *)
StaleTimerStep ==
    \/ gameInProgress /\ graceTimeout
    \/ \E n \in 1..MaxLive : n # gameLoopInterval /\ gameLoop(n)
    \/ \E n \in 1..MaxLive, id \in SpawnIds, pos \in SpawnPositions :
          n # treasureSpawnInterval /\ spawnTick(n, id, pos)
    \/ \E n \in 1..MaxLive : n # countdownInterval /\ countdown(n)

LiveOfKind(kind) == {i \in intervals : i.kind = kind}

Range(seq) == {seq[i] : i \in 1..Len(seq)}

RECURSIVE SumScores(_)
SumScores(ps) == IF ps = <<>> THEN 0 ELSE Head(ps).score + SumScores(Tail(ps))

InRadiusOfSomeone(ps, t) == \E i \in 1..Len(ps) : Collides(ps[i], t)

FirstInRadius(ps, t) ==
    CHOOSE i \in 1..Len(ps) :
        Collides(ps[i], t) /\ \A j \in 1..(i - 1) : ~Collides(ps[j], t)

----------------------------------------------------------------------------
(* C1: in every reachable state at most one tick, one spawn and one        *)
(* countdown interval is live, and none is live unless a round is in       *)
(* progress.                                                               *)
C1_TimersLiveOnlyWhileActive ==
    /\ \A kind \in {"tick", "spawn", "countdown"} : Cardinality(LiveOfKind(kind)) <= 1
    /\ ~gameInProgress => intervals = {}

(* C2: a timer of an earlier round that fires after a newer round has      *)
(* started is a no-op: it changes neither the players, the treasures, the  *)
(* timer, the phase nor the live intervals, and emits nothing.             *)
C2_StaleTimerIsNoOp ==
    [][StaleTimerStep =>
          /\ UNCHANGED <<players, treasures, gameInProgress, gameTimer, intervals,
                         countdownInterval, gameLoopInterval, treasureSpawnInterval>>
          /\ emitted' = NoEvent]_vars

(* C3: a disconnect that empties the registry leaves the round not in      *)
(* progress and the treasures empty, and while the registry stays empty    *)
(* no tick, spawn or countdown runs and no gameOver is emitted.            *)
C3_EmptyRegistryStopsEverything ==
    [][/\ (DisconnectStep /\ players' = <<>>) => (~gameInProgress' /\ treasures' = <<>>)
       /\ players = <<>> =>
              /\ ~(TickStep \/ SpawnStep \/ CountdownStep)
              /\ emitted'.type # "gameOver"]_vars

(* C4: at most 20 treasures are live in every reachable state, and a spawn *)
(* attempted when 20 are live leaves the treasures unchanged.              *)
C4_TreasureCap ==
    /\ [](Len(treasures) <= TreasureCap)
    /\ [][(SpawnStep /\ Len(treasures) = TreasureCap) => treasures' = treasures]_vars

C4_SpawnAtCap ==
    /\ Len(treasures) = TreasureCap
    /\ gameInProgress
    /\ Interval("spawn", treasureSpawnInterval) \in intervals

(* C5: a player's score never decreases in a step that does not start a    *)
(* round.                                                                  *)
C5_ScoreMonotoneWithinRound ==
    [][~StartGameStep =>
          \A i \in 1..Len(players), j \in 1..Len(players') :
              players[i].id = players'[j].id => players'[j].score >= players[i].score]_vars

(* C6: while a round is in progress gameTimer never increases (a round     *)
(* start aside), gameTimer is never below 0, and endGame is entered only   *)
(* with gameTimer = 0.                                                     *)
C6_TimerCountsDownToZero ==
    [][/\ (gameInProgress /\ gameInProgress' /\ ~StartGameStep) => gameTimer' <= gameTimer
       /\ gameTimer' >= 0
       /\ EndGameStep => gameTimer' = 0]_vars

(* C7: a tick removes exactly the treasures within the collision radius of *)
(* at least one player, and keeps the others in their order.               *)
C7_TickRemovesExactlyInRadius ==
    [][TickStep =>
          treasures' = SelectSeq(treasures, LAMBDA t : ~InRadiusOfSomeone(players, t))]_vars

(* C8: in a tick every removed treasure is credited once, to the first     *)
(* player in key order within its radius, so the scores rise by the number *)
(* of treasures removed.                                                   *)
C8_FirstInRadiusCollects ==
    [][TickStep =>
          LET removed == Range(treasures) \ Range(treasures')
          IN  /\ SumScores(players') - SumScores(players) = Cardinality(removed)
              /\ \A i \in 1..Len(players) :
                     players'[i].score - players[i].score =
                         Cardinality({t \in removed : /\ InRadiusOfSomeone(players, t)
                                                      /\ FirstInRadius(players, t) = i})]_vars

(* C9: a joinGame starts a round only when the server is idle: never while *)
(* a round is in progress, and never between endGame and its timeout while *)
(* players are registered.                                                 *)
C9_JoinStartsOnlyWhenIdle ==
    [][JoinStartsRound => ~(players # <<>> /\ timeouts > 0)]_vars

(* C10: every round start leaves the round in progress, gameTimer = 60,    *)
(* every registered score 0 and exactly one treasure.                      *)
C10_RoundStartState ==
    [][StartGameStep =>
          /\ gameInProgress'
          /\ gameTimer' = RoundDuration
          /\ \A i \in 1..Len(players') : players'[i].score = 0
          /\ Len(treasures') = 1]_vars

C10_RestartedWithTwoPlayers ==
    /\ gameInProgress
    /\ gameTimer = RoundDuration
    /\ Len(players) = 2
    /\ Len(treasures) = 1
    /\ timeouts = 0
    /\ Cardinality(LiveTimers) = 2

----------------------------------------------------------------------------
(* C11: gameOver is emitted once per round that runs to timer expiry: the  *)
(* countdown step that takes a round in progress to 0 emits it, and it is  *)
(* never emitted when no round is in progress (a round already ended, or   *)
(* one stopped by the last disconnect).                                    *)
C11_GameOverOncePerExpiredRound ==
    [][/\ (CountdownStep /\ gameInProgress /\ gameTimer = 1) => emitted'.type = "gameOver"
       /\ emitted'.type = "gameOver" => (EndGameStep /\ gameInProgress)]_vars

----------------------------------------------------------------------------
(* SpecEnd: the countdown that ends a round, on every registry of up to    *)
(* three players with scores up to MaxEndScore.  The empty registry is the *)
(* one a leaked countdown interval meets after the last disconnect.        *)

MaxEndScore == 2

EndSockets == {"s1", "s2", "s3"}
EndName(s) == IF s = "s1" THEN "Ann" ELSE IF s = "s2" THEN "Bob" ELSE ""

EndRegistries ==
    {ps \in UNION {[1..k -> {[NewPlayer(s, EndName(s), "Player 7", pos) EXCEPT !.score = sc] :
                                 s \in EndSockets, pos \in JoinPositions, sc \in 0..MaxEndScore}] :
                   k \in 0..Cardinality(EndSockets)} :
        \A i, j \in 1..Len(ps) : i # j => ps[i].id # ps[j].id}

InitEnd ==
    /\ socketsIsMap \in BOOLEAN
    /\ players \in EndRegistries
    /\ connected = Keys(players)
    /\ treasures = <<>>
    /\ gameInProgress = (players # <<>>)
    /\ gameTimer = 1
    /\ countdownInterval = (IF players = <<>> THEN 2 ELSE 1)
    /\ gameLoopInterval = countdownInterval
    /\ treasureSpawnInterval = countdownInterval
    /\ intervals = RoundIntervals(1)
    /\ timeouts = 0
    /\ emitted = NoEvent

NextEnd == \E n \in 1..MaxLive : countdown(n)

SpecEnd == InitEnd /\ [][NextEnd]_vars

TopScore(ps) == CHOOSE m \in {ps[i].score : i \in 1..Len(ps)} :
                    \A i \in 1..Len(ps) : ps[i].score <= m

FirstWithScore(ps, m) == CHOOSE i \in 1..Len(ps) :
                             ps[i].score = m /\ \A j \in 1..(i - 1) : ps[j].score # m

(* C12: the gameOver of endGame names the first player, in key order,      *)
(* whose score is the maximum over the registry, with that maximum as the  *)
(* score; with an empty registry it carries 'No one' and 0.                *)
C12_WinnerIsFirstMax ==
    [][EndGameStep =>
          emitted' = [type |-> "gameOver",
                      payload |-> IF players = <<>>
                                  THEN [name |-> "No one", score |-> 0]
                                  ELSE [name |-> players[FirstWithScore(players, TopScore(players))].name,
                                        score |-> TopScore(players)]]]_vars

C12_TieGoesToEarlierPlayer ==
    /\ emitted.type = "gameOver"
    /\ Len(players) = 3
    /\ players[1].score < players[2].score
    /\ players[2].score = players[3].score
    /\ emitted.payload = [name |-> players[2].name, score |-> players[2].score]

----------------------------------------------------------------------------
(* C13: when the timeout of endGame fires with at least one player         *)
(* connected and registered, a round is started and the registered players *)
(* stay registered; with no player registered no round is started.         *)
C13_GraceTimeoutRestartsIffPlayers ==
    [][graceTimeout =>
          IF \E i \in 1..Len(players) : players[i].id \in connected
          THEN /\ gameInProgress'
               /\ gameTimer' = RoundDuration
               /\ Keys(players') = Keys(players)
          ELSE UNCHANGED <<gameInProgress, gameTimer, intervals, players>>]_vars

----------------------------------------------------------------------------
(* C14: the gameState a tick broadcasts is the state the tick leaves: its  *)
(* players, treasures, gameTimer and leaderboard are those after the       *)
(* collision pass, and the tick neither adds nor drops a player record.    *)
C14_SnapshotIsPostTickState ==
    [][TickStep =>
          /\ emitted' = [type |-> "gameState",
                         gameState |-> [players |-> players',
                                        treasures |-> treasures',
                                        gameTimer |-> gameTimer',
                                        leaderboard |-> getLeaderboard(players')]]
          /\ Keys(players') = Keys(players)
          /\ Len(players') = Len(players)]_vars

C14_BroadcastAfterCollection ==
    /\ emitted.type = "gameState"
    /\ Len(players) = 2
    /\ players[1].score = 0
    /\ players[2].score = 1
    /\ emitted.gameState.leaderboard[1].name = players[2].name
    /\ emitted.gameState.treasures = <<>>

----------------------------------------------------------------------------
(* SpecBoard: the leaderboard a tick broadcasts, on every registry of up   *)
(* to six players (one more than the leaderboard holds) with scores up to  *)
(* MaxBoardScore, no treasure live.                                        *)

MaxBoardScore == 2

BoardSockets == <<"b1", "b2", "b3", "b4", "b5", "b6">>
BoardNames == <<"Ann", "Bob", "Cy", "Di", "Ed", "Flo">>

BoardRegistries ==
    UNION {{[i \in 1..k |-> [NewPlayer(BoardSockets[i], BoardNames[i], "Player 7",
                                       CHOOSE pos \in JoinPositions : TRUE)
                                 EXCEPT !.score = sc[i]]] :
               sc \in [1..k -> 0..MaxBoardScore]} :
           k \in 0..Len(BoardSockets)}

InitBoard ==
    /\ socketsIsMap \in BOOLEAN
    /\ players \in BoardRegistries
    /\ connected = Keys(players)
    /\ treasures = <<>>
    /\ gameInProgress = TRUE
    /\ gameTimer = RoundDuration
    /\ countdownInterval = 1
    /\ gameLoopInterval = 1
    /\ treasureSpawnInterval = 1
    /\ intervals = RoundIntervals(1)
    /\ timeouts = 0
    /\ emitted = NoEvent

NextBoard == \E n \in 1..MaxLive : gameLoop(n)

SpecBoard == InitBoard /\ [][NextBoard]_vars

(* the place of player i when the registry is ranked by score, descending, *)
(* players of equal score in key order                                     *)
Rank(ps, i) ==
    1 + Cardinality({k \in 1..Len(ps) :
                        \/ ps[k].score > ps[i].score
                        \/ ps[k].score = ps[i].score /\ k < i})

(* C15: the leaderboard holds the min(5, number of players) best-ranked    *)
(* players as (name, score), by score descending with equal scores in key  *)
(* order; computing it leaves the registry unchanged, and a second         *)
(* computation on the same registry gives the same leaderboard.            *)
C15_LeaderboardTopFiveStable ==
    /\ [](emitted.type = "gameState" =>
             LET lb == emitted.gameState.leaderboard
                 ps == emitted.gameState.players
             IN  /\ Len(lb) = (IF Len(ps) < 5 THEN Len(ps) ELSE 5)
                 /\ DOMAIN lb = 1..Len(lb)
                 /\ \A i \in 1..Len(ps) :
                        Rank(ps, i) <= 5 =>
                            lb[Rank(ps, i)] = [name |-> ps[i].name, score |-> ps[i].score]
                 /\ \A i, j \in 1..Len(lb) : i < j => lb[i].score >= lb[j].score)
    /\ [][(TickStep /\ treasures = <<>>) =>
             /\ players' = players
             /\ emitted'.gameState.leaderboard = getLeaderboard(players)
             /\ emitted.type = "gameState" =>
                    emitted'.gameState.leaderboard = emitted.gameState.leaderboard]_vars

C15_SixthPlayerCutTiesInOrder ==
    /\ emitted.type = "gameState"
    /\ Len(players) = 6
    /\ players[1].score = 0
    /\ players[2].score = 2
    /\ players[3].score = 2
    /\ \A i \in 4..6 : players[i].score = 1
    /\ Len(emitted.gameState.leaderboard) = 5
    /\ emitted.gameState.leaderboard[1].name = players[2].name
    /\ emitted.gameState.leaderboard[2].name = players[3].name
    /\ emitted.gameState.leaderboard[5].name = players[6].name

----------------------------------------------------------------------------
(* C16: a move of a registered socket sets that player's x, y and z to the *)
(* position sent and changes nothing else: not its score or name, not      *)
(* another player, the treasures, gameTimer, the phase or the timers; a    *)
(* move of a socket with no record changes nothing and adds no record.     *)
C16_MoveChangesOnlyOwnPosition ==
    [][\A s \in Sockets, position \in MovePositions :
          move(s, position) =>
              /\ UNCHANGED <<treasures, gameTimer, gameInProgress, intervals, timeouts>>
              /\ Len(players') = Len(players)
              /\ \A i \in 1..Len(players) :
                     IF players[i].id = s
                     THEN /\ players'[i].x = position.x
                          /\ players'[i].y = position.y
                          /\ players'[i].z = position.z
                          /\ players'[i].id = s
                          /\ players'[i].score = players[i].score
                          /\ players'[i].name = players[i].name
                     ELSE players'[i] = players[i]]_vars

C16_MovedScorerBesideUnmoved ==
    /\ Len(players) = 2
    /\ players[1].y = 2
    /\ players[1].score = 1
    /\ players[2].y = SpawnY
    /\ emitted = NoEvent
    /\ gameInProgress

----------------------------------------------------------------------------
(* C17: a disconnect removes the record of the disconnecting socket and no *)
(* other; when a player stays registered it changes neither the phase,     *)
(* gameTimer, the treasures nor the live timers; and the disconnect of a   *)
(* socket with no record changes none of these either.                     *)
C17_DisconnectRemovesOnlyOwnRecord ==
    [][\A s \in Sockets :
          disconnect(s) =>
              /\ players' = SelectSeq(players, LAMBDA p : p.id # s)
              /\ (players' # <<>> \/ s \notin Keys(players)) =>
                     UNCHANGED <<gameInProgress, gameTimer, treasures, intervals, timeouts>>]_vars

----------------------------------------------------------------------------
(* C18: in every reachable state with no player registered, no round is in *)
(* progress and no treasure is live.                                       *)
C18_EmptyRegistryIsIdle ==
    players = <<>> => (~gameInProgress /\ treasures = <<>>)

----------------------------------------------------------------------------
(* C19: a joinGame of a socket with no record while a round is in progress *)
(* appends one record for it with score 0 and changes no other record, nor *)
(* gameTimer, the treasures, the phase or the live timers; and every       *)
(* joinGame answers with the state it leaves, round start included.        *)
C19_JoinDuringRoundOnlyAddsPlayer ==
    [][\A s \in Sockets :
          (\E fallback \in FallbackNames, pos \in JoinPositions :
               joinGame(s, TypedName(s), fallback, pos)) =>
              /\ (gameInProgress /\ s \notin Keys(players)) =>
                     /\ Len(players') = Len(players) + 1
                     /\ SubSeq(players', 1, Len(players)) = players
                     /\ players'[Len(players')].id = s
                     /\ players'[Len(players')].score = 0
                     /\ UNCHANGED <<gameTimer, treasures, gameInProgress, intervals, timeouts>>
              /\ emitted' = [type |-> "gameJoined", id |-> s,
                             gameState |-> [players |-> players',
                                            treasures |-> treasures',
                                            gameTimer |-> gameTimer',
                                            leaderboard |-> getLeaderboard(players')]]]_vars

C19_JoinedBesideScorerMidRound ==
    /\ emitted.type = "gameJoined"
    /\ gameInProgress
    /\ gameTimer < RoundDuration
    /\ Len(players) = 2
    /\ emitted.id = players[2].id
    /\ players[1].score = 1
    /\ players[2].score = 0
    /\ emitted.gameState.players = players

----------------------------------------------------------------------------
(* SpecLive: the server with its timers firing when due.  No handler       *)
(* blocks the event loop, so a live countdown interval and a pending       *)
(* timeout of endGame are run whenever they stay due.                      *)

SpecLive == Spec /\ WF_vars(CountdownStep) /\ WF_vars(graceTimeout)

RoundOver == ~gameInProgress /\ gameTimer = 0 /\ emitted.type = "gameOver"

(* a round in progress ends with gameTimer 0 and a gameOver, unless its    *)
(* players all leave or the model's bound on pending timeouts is reached   *)
RoundEventuallyEnds ==
    gameInProgress ~> (RoundOver \/ players = <<>> \/ timeouts = MaxTimeouts)

(* C20: with the countdown and the timeout of endGame firing when due,     *)
(* every round in progress whose players stay registered ends with         *)
(* gameTimer 0 and a gameOver emitted, and a timeout of endGame that fires *)
(* with a player registered leaves a round in progress.                    *)
C20_RoundsEndAndRestart ==
    /\ RoundEventuallyEnds
    /\ [][(graceTimeout /\ players # <<>>) => gameInProgress']_vars

====
